---- MODULE Spec2Model ----
(***************************************************************************)
(* Model of reddit_scraper.py: the command-line pipeline main() with its   *)
(* helpers fetch_posts, save_to_json and save_to_csv, and the independent  *)
(* entry point fetch_reddit_trends.  One behaviour is one call of one      *)
(* entry point.  The PRAW client is the environment: session creation,     *)
(* the identity check and the listing iteration may each raise; opening    *)
(* or writing a file may fail.                                             *)
(***************************************************************************)
EXTENDS Integers, Sequences, FiniteSets, TLC

VARIABLES entry, caught, args, pc, reddit, user, fp, submissions, yielded,
          fetched_posts_data, count, posts_data, wr, files, events, log,
          trending_post_titles, ret

vars == <<entry, caught, args, pc, reddit, user, fp, submissions, yielded,
          fetched_posts_data, count, posts_data, wr, files, events, log,
          trending_post_titles, ret>>

----------------------------------------------------------------------------
(* Bounds *)

\* largest --limit / limit argument explored
MaxLimit == 3

\* values of the limit argument explored, non-positive ones included
Limits == (0 - 1)..MaxLimit

----------------------------------------------------------------------------
(* Values *)

None == "None"

\* file names are sequences of characters, so that endswith is computed
Dot == "."
JsonExt == <<"j", "s", "o", "n">>
CsvExt == <<"c", "s", "v">>

FormatChars(fmt) == IF fmt = "json" THEN JsonExt ELSE IF fmt = "csv" THEN CsvExt ELSE <<"n", "o", "n", "e">>

\* values of --output_file explored: plain, already suffixed with either
\* extension, ending in the format's letters without the dot, and empty
OutputFiles ==
    { <<"r">>,
      <<"r", Dot>> \o JsonExt,
      <<"r", Dot>> \o CsvExt,
      <<"r">> \o JsonExt,
      <<>> }

SortChoices == {"hot", "new", "top", "controversial"}

\* sort_type values a programmatic caller of fetch_posts may pass
SortValues == SortChoices \cup {"rising"}

FormatChoices == {"json", "csv", "none"}

Subreddits == {"python"}

Fields == {"id", "title", "score", "url", "num_comments", "created_utc", "selftext"}

FieldOrder == <<"id", "title", "score", "url", "num_comments", "created_utc", "selftext">>

\* submissions the API may yield; they carry more attributes than the
\* seven that are extracted
Submissions ==
    { [id |-> "a1", title |-> "t1", score |-> 5, url |-> "u1", num_comments |-> 0,
       created_utc |-> 100, selftext |-> "", author |-> "x"],
      [id |-> "b2", title |-> "t2", score |-> 0 - 3, url |-> "u2", num_comments |-> 7,
       created_utc |-> 200, selftext |-> "body", author |-> "y"] }

Identities == {None, "u1"}

ExceptionKinds == {"PRAWException", "Exception"}

NoArgs == [subreddit |-> None, sort_type |-> None, limit |-> 0, output_format |-> None, output_file |-> <<>>]

NoCall == [reddit |-> None, subreddit_name |-> None, sort_type |-> None, limit |-> 0]

NoWrite == [data |-> <<>>, filename |-> <<>>]

Entries == {"main", "fetch_posts", "save_to_json", "save_to_csv", "fetch_reddit_trends"}

----------------------------------------------------------------------------
(* Pure helpers *)

Logged(l, level, msg) == Append(l, <<level, msg>>)

\* str.endswith
EndsWith(s, suffix) ==
    /\ Len(s) >= Len(suffix)
    /\ SubSeq(s, Len(s) - Len(suffix) + 1, Len(s)) = suffix

\* main: args.limit <= 0
\* variant: only negative limits are rejected
LimitRejected_off(limit) == limit < 0
LimitRejected(limit) == limit <= 0

\* main: where the except handler of the session set-up leaves (return)
\* variant: the handler logs and falls through to the fetch
AuthFailurePc_on == "call_fetch"
AuthFailurePc == "done"

\* main: after the identity check returned, both branches fall through
\* variant: an empty identity ends the run
AfterIdentityPc_strict(u) == IF u = None THEN "done" ELSE "call_fetch"
AfterIdentityPc(u) == "call_fetch"

\* main: level of the log line that reports the identity
IdentityLogLevel(u) == IF u # None THEN "info" ELSE "warning"

\* main: posts_data and args.output_format != "none"
\* variant: the emptiness test is dropped
ShouldSave_any(data, fmt) == fmt # "none"
ShouldSave(data, fmt) == data # <<>> /\ fmt # "none"

\* main: output_filename_with_ext
\* variant: the extension is appended unconditionally
OutputFilename_append(output_file, fmt) == output_file \o <<Dot>> \o FormatChars(fmt)
OutputFilename(output_file, fmt) ==
    IF ~EndsWith(output_file, <<Dot>> \o FormatChars(fmt))
    THEN output_file \o <<Dot>> \o FormatChars(fmt)
    ELSE output_file

\* save_to_csv: if not data
\* variant: the early return is dropped
CsvSkips_never(data) == FALSE
CsvSkips(data) == data = <<>>

\* fetch_posts: the listing operation chosen by the if/elif chain
\* variant: the top branch is missing
ListingOp_hot(sort_type) == IF sort_type \in {"new", "controversial"} THEN sort_type ELSE "hot"
ListingOp(sort_type) ==
    IF sort_type = "hot" THEN "hot"
    ELSE IF sort_type = "new" THEN "new"
    ELSE IF sort_type = "top" THEN "top"
    ELSE IF sort_type = "controversial" THEN "controversial"
    ELSE "hot"

\* fetch_posts: the dict built for one submission
\* variant: score and num_comments are exchanged
post_data_swapped(post) ==
    [id |-> post.id, title |-> post.title, score |-> post.num_comments, url |-> post.url,
     num_comments |-> post.score, created_utc |-> post.created_utc, selftext |-> post.selftext]
post_data(post) ==
    [id |-> post.id, title |-> post.title, score |-> post.score, url |-> post.url,
     num_comments |-> post.num_comments, created_utc |-> post.created_utc, selftext |-> post.selftext]

\* fetch_posts: the value returned after an exception was caught
\* variant: the partial list is discarded
ErrorReturn_empty(fetched) == <<>>
ErrorReturn(fetched) == fetched

\* fetch_reddit_trends: the listing it requests
\* variant: one item more is requested
TrendsRequest_all == [op |-> "hot", subreddit |-> "popular", limit |-> 11]
TrendsRequest == [op |-> "hot", subreddit |-> "popular", limit |-> 10]

\* json.dump of a list of dicts: an array with one object per record
JsonDocument(data) == [kind |-> "json", array |-> data]

\* csv.DictWriter: header from the first record's keys, one row per record
CsvDocument(data) ==
    [kind |-> "csv", header |-> FieldOrder,
     rows |-> [i \in 1..Len(data) |-> [j \in 1..Len(FieldOrder) |-> data[i][FieldOrder[j]]]]]

\* a file that was opened (truncated) but whose writing failed
Truncated == [kind |-> "truncated"]

\* the file system after writing doc under name
WithFile(fs, name, doc) == {f \in fs : f.name # name} \cup {[name |-> name, doc |-> doc]}

----------------------------------------------------------------------------
(* Initial states: one call of one entry point *)

InitCommon ==
    /\ reddit = None
    /\ user = "unset"
    /\ submissions = None
    /\ yielded = <<>>
    /\ fetched_posts_data = <<>>
    /\ count = 0
    /\ posts_data = <<>>
    /\ files = {}
    /\ events = <<>>
    /\ log = <<>>
    /\ trending_post_titles = <<>>
    /\ ret = "unset"
    /\ caught = None

\* python reddit_scraper.py <subreddit> [--sort_type ..] [--limit ..] ...
InitMain ==
    /\ entry = "main"
    /\ pc = "main"
    /\ args \in [subreddit : Subreddits, sort_type : SortChoices, limit : Limits,
                 output_format : FormatChoices, output_file : OutputFiles]
    /\ fp = NoCall
    /\ wr = NoWrite

\* fetch_posts(reddit, subreddit_name, sort_type, limit) called by an importer
InitFetchPosts ==
    /\ entry = "fetch_posts"
    /\ pc = "fetch_posts"
    /\ args = NoArgs
    /\ fp \in [reddit : {"bot1"}, subreddit_name : Subreddits, sort_type : SortValues,
               limit : 1..MaxLimit]
    /\ wr = NoWrite

\* save_to_json(data, filename) / save_to_csv(data, filename) called directly
InitSave ==
    /\ entry \in {"save_to_json", "save_to_csv"}
    /\ pc = entry
    /\ args = NoArgs
    /\ fp = NoCall
    /\ wr \in [data : {<<>>} \cup {<<post_data(s)>> : s \in Submissions},
               filename : {<<"r", Dot>> \o JsonExt, <<"r", Dot>> \o CsvExt}]

\* fetch_reddit_trends()
InitTrends ==
    /\ entry = "fetch_reddit_trends"
    /\ pc = "fetch_reddit_trends"
    /\ args = NoArgs
    /\ fp = NoCall
    /\ wr = NoWrite

Init == InitCommon /\ (InitMain \/ InitFetchPosts \/ InitSave \/ InitTrends)

----------------------------------------------------------------------------
(* main *)

\* lines 32-34: non-positive limit, error and return
MainRejectLimit ==
    /\ pc = "main"
    /\ LimitRejected(args.limit)
    /\ log' = Logged(log, "error", "limit_not_positive")
    /\ pc' = "done"
    /\ UNCHANGED <<entry, caught, args, reddit, user, fp, submissions, yielded, fetched_posts_data,
                   count, posts_data, wr, files, events, trending_post_titles, ret>>

\* lines 32, 36-40: the configuration is logged
MainAcceptLimit ==
    /\ pc = "main"
    /\ ~LimitRejected(args.limit)
    /\ log' = log \o << <<"info", "subreddit">>, <<"info", "sort_type">>, <<"info", "limit">>,
                        <<"info", "output_format">>, <<"info", "output_file">> >>
    /\ pc' = "init_praw"
    /\ UNCHANGED <<entry, caught, args, reddit, user, fp, submissions, yielded, fetched_posts_data,
                   count, posts_data, wr, files, events, trending_post_titles, ret>>

\* line 47: praw.Reddit(site_name="bot1") returns
MainCreateSession ==
    /\ pc = "init_praw"
    /\ events' = Append(events, [kind |-> "session", site_name |-> "bot1"])
    /\ reddit' = "bot1"
    /\ pc' = "user_me"
    /\ UNCHANGED <<entry, caught, args, user, fp, submissions, yielded, fetched_posts_data, count,
                   posts_data, wr, files, log, trending_post_titles, ret>>

\* lines 47, 58-60: praw.Reddit raises
MainCreateSessionRaises ==
    /\ pc = "init_praw"
    /\ events' = Append(events, [kind |-> "session", site_name |-> "bot1"])
    /\ log' = Logged(log, "error", "auth_failed")
    /\ caught' = "main:Exception"
    /\ pc' = AuthFailurePc
    /\ UNCHANGED <<entry, args, reddit, user, fp, submissions, yielded, fetched_posts_data,
                   count, posts_data, wr, files, trending_post_titles, ret>>

\* lines 50-56: reddit.user.me() returns an identity, possibly None
MainIdentity ==
    /\ pc = "user_me"
    /\ \E u \in Identities :
          /\ user' = u
          /\ log' = Logged(log, IdentityLogLevel(u), "identity")
          /\ pc' = AfterIdentityPc(u)
    /\ events' = Append(events, [kind |-> "identity"])
    /\ UNCHANGED <<entry, caught, args, reddit, fp, submissions, yielded, fetched_posts_data, count,
                   posts_data, wr, files, trending_post_titles, ret>>

\* lines 50, 58-60: reddit.user.me() raises
MainIdentityRaises ==
    /\ pc = "user_me"
    /\ events' = Append(events, [kind |-> "identity"])
    /\ log' = Logged(log, "error", "auth_failed")
    /\ caught' = "main:Exception"
    /\ pc' = AuthFailurePc
    /\ UNCHANGED <<entry, args, reddit, user, fp, submissions, yielded, fetched_posts_data, count,
                   posts_data, wr, files, trending_post_titles, ret>>

\* line 62: the call fetch_posts(reddit, args.subreddit, args.sort_type, args.limit)
MainCallFetch ==
    /\ pc = "call_fetch"
    /\ fp' = [reddit |-> reddit, subreddit_name |-> args.subreddit,
              sort_type |-> args.sort_type, limit |-> args.limit]
    /\ pc' = "fetch_posts"
    /\ UNCHANGED <<entry, caught, args, reddit, user, submissions, yielded, fetched_posts_data, count,
                   posts_data, wr, files, events, log, trending_post_titles, ret>>

\* lines 64-72: data present and a format chosen, the writer is called
MainCallWriter ==
    /\ pc = "serialize"
    /\ ShouldSave(posts_data, args.output_format)
    /\ wr' = [data |-> posts_data,
              filename |-> OutputFilename(args.output_file, args.output_format)]
    /\ pc' = IF args.output_format = "json" THEN "save_to_json"
             ELSE IF args.output_format = "csv" THEN "save_to_csv"
             ELSE "done"
    /\ UNCHANGED <<entry, caught, args, reddit, user, fp, submissions, yielded, fetched_posts_data,
                   count, posts_data, files, events, log, trending_post_titles, ret>>

\* lines 74-75: nothing fetched and a format chosen
MainSkipSaving ==
    /\ pc = "serialize"
    /\ ~ShouldSave(posts_data, args.output_format)
    /\ posts_data = <<>>
    /\ args.output_format # "none"
    /\ log' = Logged(log, "info", "skip_saving")
    /\ pc' = "done"
    /\ UNCHANGED <<entry, caught, args, reddit, user, fp, submissions, yielded, fetched_posts_data,
                   count, posts_data, wr, files, events, trending_post_titles, ret>>

\* lines 64, 74: output_format is none, neither branch runs
MainNoOutput ==
    /\ pc = "serialize"
    /\ ~ShouldSave(posts_data, args.output_format)
    /\ ~(posts_data = <<>> /\ args.output_format # "none")
    /\ pc' = "done"
    /\ UNCHANGED <<entry, caught, args, reddit, user, fp, submissions, yielded, fetched_posts_data,
                   count, posts_data, wr, files, events, log, trending_post_titles, ret>>

----------------------------------------------------------------------------
(* fetch_posts *)

\* the return statement of fetch_posts: to main's line 62, or to the importer
FetchReturns(value) ==
    IF entry = "main"
    THEN /\ posts_data' = value
         /\ pc' = "serialize"
         /\ ret' = ret
    ELSE /\ ret' = value
         /\ pc' = "done"
         /\ posts_data' = posts_data

\* lines 112-129: the listing operation is selected and invoked once.
\* reddit.subreddit(name) and subreddit.<sort>(limit=..) build lazy PRAW
\* objects; the request they stand for is sent, and can fail, only when the
\* for loop starts to iterate (FetchNext, FetchExhausted, FetchRaises).
FetchDispatch ==
    /\ pc = "fetch_posts"
    /\ fetched_posts_data' = <<>>
    /\ submissions' = [op |-> ListingOp(fp.sort_type), subreddit |-> fp.subreddit_name,
                       limit |-> fp.limit]
    /\ events' = Append(events, [kind |-> "listing", op |-> ListingOp(fp.sort_type),
                                 subreddit |-> fp.subreddit_name, limit |-> fp.limit])
    /\ log' = IF fp.sort_type \in SortChoices
              THEN Logged(log, "info", "fetching")
              ELSE Logged(Logged(log, "info", "fetching"), "error", "invalid_sort_type")
    /\ count' = 0
    /\ yielded' = <<>>
    /\ pc' = "fp_iter"
    /\ UNCHANGED <<entry, caught, args, reddit, user, fp, posts_data, wr, files,
                   trending_post_titles, ret>>

\* lines 130-147: one submission is yielded and recorded
FetchNext ==
    /\ pc = "fp_iter"
    /\ Len(yielded) < submissions.limit
    /\ \E post \in Submissions :
          /\ yielded' = Append(yielded, post)
          /\ fetched_posts_data' = Append(fetched_posts_data, post_data(post))
    /\ log' = log \o << <<"info", "separator">>, <<"info", "title">>, <<"info", "id">> >>
    /\ count' = count + 1
    /\ UNCHANGED <<entry, caught, args, pc, reddit, user, fp, submissions, posts_data, wr, files,
                   events, trending_post_titles, ret>>

\* lines 149-154: the listing is exhausted, the records are returned
FetchExhausted ==
    /\ pc = "fp_iter"
    /\ log' = IF count = 0 THEN Logged(log, "info", "no_posts_found")
              ELSE Logged(log, "info", "fetched_count")
    /\ FetchReturns(fetched_posts_data)
    /\ UNCHANGED <<entry, caught, args, reddit, user, fp, submissions, yielded, fetched_posts_data,
                   count, wr, files, events, trending_post_titles>>

\* lines 156-161: the iteration raises before the limit is reached
FetchRaises ==
    /\ pc = "fp_iter"
    /\ Len(yielded) < submissions.limit
    /\ \E kind \in ExceptionKinds :
          /\ caught' = kind
          /\ log' = Logged(log, "error", IF kind = "PRAWException" THEN "praw_error"
                                        ELSE "unexpected_error")
    /\ FetchReturns(ErrorReturn(fetched_posts_data))
    /\ UNCHANGED <<entry, args, reddit, user, fp, submissions, yielded, fetched_posts_data, count, wr,
                   files, events, trending_post_titles>>

----------------------------------------------------------------------------
(* save_to_json, save_to_csv *)

WriteEvent(writer) ==
    [kind |-> "write", writer |-> writer, filename |-> wr.filename, data |-> wr.data]

\* lines 80-83: the file is opened and the document dumped
SaveToJson ==
    /\ pc = "save_to_json"
    /\ events' = Append(events, WriteEvent("json"))
    /\ files' = WithFile(files, wr.filename, JsonDocument(wr.data))
    /\ log' = Logged(log, "info", "saved")
    /\ pc' = "done"
    /\ UNCHANGED <<entry, caught, args, reddit, user, fp, submissions, yielded, fetched_posts_data,
                   count, posts_data, wr, trending_post_titles, ret>>

\* lines 84-87: open fails, or the dump fails after the file was opened
SaveToJsonFails ==
    /\ pc = "save_to_json"
    /\ events' = Append(events, WriteEvent("json"))
    /\ \E opened \in BOOLEAN :
          files' = IF opened THEN WithFile(files, wr.filename, Truncated) ELSE files
    /\ \E kind \in {"json_io_error", "json_unexpected_error"} :
          log' = Logged(log, "error", kind)
    /\ pc' = "done"
    /\ UNCHANGED <<entry, caught, args, reddit, user, fp, submissions, yielded, fetched_posts_data,
                   count, posts_data, wr, trending_post_titles, ret>>

\* lines 91-93: nothing to save
SaveToCsvEmpty ==
    /\ pc = "save_to_csv"
    /\ CsvSkips(wr.data)
    /\ log' = Logged(log, "info", "no_data_for_csv")
    /\ pc' = "done"
    /\ UNCHANGED <<entry, caught, args, reddit, user, fp, submissions, yielded, fetched_posts_data,
                   count, posts_data, wr, files, events, trending_post_titles, ret>>

\* lines 95-101: header and rows are written
SaveToCsv ==
    /\ pc = "save_to_csv"
    /\ ~CsvSkips(wr.data)
    /\ wr.data # <<>>
    /\ events' = Append(events, WriteEvent("csv"))
    /\ files' = WithFile(files, wr.filename, CsvDocument(wr.data))
    /\ log' = Logged(log, "info", "saved")
    /\ pc' = "done"
    /\ UNCHANGED <<entry, caught, args, reddit, user, fp, submissions, yielded, fetched_posts_data,
                   count, posts_data, wr, trending_post_titles, ret>>

\* lines 95 (data[0] of an empty list, uncaught IndexError), 102-105
SaveToCsvFails ==
    /\ pc = "save_to_csv"
    /\ ~CsvSkips(wr.data)
    /\ IF wr.data = <<>>
       THEN /\ pc' = "raised"
            /\ UNCHANGED <<events, files, log>>
       ELSE /\ events' = Append(events, WriteEvent("csv"))
            /\ \E opened \in BOOLEAN :
                  files' = IF opened THEN WithFile(files, wr.filename, Truncated) ELSE files
            /\ \E kind \in {"csv_io_error", "csv_unexpected_error"} :
                  log' = Logged(log, "error", kind)
            /\ pc' = "done"
    /\ UNCHANGED <<entry, caught, args, reddit, user, fp, submissions, yielded, fetched_posts_data,
                   count, posts_data, wr, trending_post_titles, ret>>

----------------------------------------------------------------------------
(* fetch_reddit_trends *)

\* the except clauses of fetch_reddit_trends, lines 196-199
TrendsErrorLog(kind) == IF kind = "PRAWException" THEN "trends_praw_error" ELSE "trends_unexpected_error"

\* lines 170-171
TrendsStart ==
    /\ pc = "fetch_reddit_trends"
    /\ log' = Logged(log, "info", "fetching_trends")
    /\ trending_post_titles' = <<>>
    /\ pc' = "t_session"
    /\ UNCHANGED <<entry, caught, args, reddit, user, fp, submissions, yielded,
                   fetched_posts_data, count, posts_data, wr, files, events, ret>>

\* line 176: praw.Reddit(site_name="bot1") returns
TrendsCreateSession ==
    /\ pc = "t_session"
    /\ events' = Append(events, [kind |-> "session", site_name |-> "bot1"])
    /\ reddit' = "bot1"
    /\ pc' = "t_user_me"
    /\ UNCHANGED <<entry, caught, args, user, fp, submissions, yielded, fetched_posts_data,
                   count, posts_data, wr, files, log, trending_post_titles, ret>>

\* lines 179-183: reddit.user.me() returns an identity, possibly None
TrendsIdentity ==
    /\ pc = "t_user_me"
    /\ events' = Append(events, [kind |-> "identity"])
    /\ \E u \in Identities :
          /\ user' = u
          /\ log' = Logged(log, IF u # None THEN "debug" ELSE "warning", "trends_identity")
    /\ pc' = "t_listing"
    /\ UNCHANGED <<entry, caught, args, reddit, fp, submissions, yielded, fetched_posts_data,
                   count, posts_data, wr, files, trending_post_titles, ret>>

\* lines 185-186: reddit.subreddit("popular").hot(limit=10), lazy as above
TrendsListing ==
    /\ pc = "t_listing"
    /\ submissions' = TrendsRequest
    /\ events' = Append(events, [kind |-> "listing", op |-> TrendsRequest.op,
                                 subreddit |-> TrendsRequest.subreddit,
                                 limit |-> TrendsRequest.limit])
    /\ pc' = "t_iter"
    /\ UNCHANGED <<entry, caught, args, reddit, user, fp, yielded, fetched_posts_data, count,
                   posts_data, wr, files, log, trending_post_titles, ret>>

\* lines 188-189: one submission is yielded, its title is kept
TrendsNext ==
    /\ pc = "t_iter"
    /\ Len(yielded) < submissions.limit
    /\ \E post \in Submissions :
          /\ yielded' = Append(yielded, post)
          /\ trending_post_titles' = Append(trending_post_titles, post.title)
    /\ UNCHANGED <<entry, caught, args, pc, reddit, user, fp, submissions, fetched_posts_data,
                   count, posts_data, wr, files, events, log, ret>>

\* lines 191-194, 201: the listing is exhausted, the titles are returned
TrendsExhausted ==
    /\ pc = "t_iter"
    /\ log' = IF trending_post_titles = <<>> THEN Logged(log, "info", "no_trends_found")
              ELSE Logged(log, "info", "fetched_trends_count")
    /\ ret' = trending_post_titles
    /\ pc' = "done"
    /\ UNCHANGED <<entry, caught, args, reddit, user, fp, submissions, yielded,
                   fetched_posts_data, count, posts_data, wr, files, events,
                   trending_post_titles>>

\* lines 196-201: session creation, the identity check or the iteration raises
TrendsRaises ==
    /\ pc \in {"t_session", "t_user_me", "t_iter"}
    /\ pc = "t_iter" => Len(yielded) < submissions.limit
    /\ events' = IF pc = "t_session"
                 THEN Append(events, [kind |-> "session", site_name |-> "bot1"])
                 ELSE IF pc = "t_user_me" THEN Append(events, [kind |-> "identity"])
                 ELSE events
    /\ \E kind \in ExceptionKinds :
          /\ caught' = kind
          /\ log' = Logged(log, "error", TrendsErrorLog(kind))
    /\ ret' = trending_post_titles
    /\ pc' = "done"
    /\ UNCHANGED <<entry, args, reddit, user, fp, submissions, yielded, fetched_posts_data,
                   count, posts_data, wr, files, trending_post_titles>>

----------------------------------------------------------------------------

Next ==
    \/ MainRejectLimit
    \/ MainAcceptLimit
    \/ MainCreateSession
    \/ MainCreateSessionRaises
    \/ MainIdentity
    \/ MainIdentityRaises
    \/ MainCallFetch
    \/ MainCallWriter
    \/ MainSkipSaving
    \/ MainNoOutput
    \/ FetchDispatch
    \/ FetchNext
    \/ FetchExhausted
    \/ FetchRaises
    \/ SaveToJson
    \/ SaveToJsonFails
    \/ SaveToCsvEmpty
    \/ SaveToCsv
    \/ SaveToCsvFails
    \/ TrendsStart
    \/ TrendsCreateSession
    \/ TrendsIdentity
    \/ TrendsListing
    \/ TrendsNext
    \/ TrendsExhausted
    \/ TrendsRaises

Spec == Init /\ [][Next]_vars

----------------------------------------------------------------------------
(* Vocabulary of the properties *)

EventsOf(kind) == {i \in 1..Len(events) : events[i].kind = kind}

LogHas(level, msg) == \E i \in 1..Len(log) : log[i] = <<level, msg>>

\* fetch_posts was called from main and has returned
FetchReturned ==
    /\ entry = "main"
    /\ pc \in {"serialize", "save_to_json", "save_to_csv", "done"}
    /\ EventsOf("listing") # {}

\* rec holds exactly the seven fields of the yielded item, unmodified
SameSeven(rec, item) ==
    /\ DOMAIN rec = Fields
    /\ \A f \in Fields : rec[f] = item[f]

\* recs is the image of the yielded items, in order
MirrorsYielded(recs) ==
    /\ Len(recs) = Len(yielded)
    /\ \A i \in 1..Len(yielded) : SameSeven(recs[i], yielded[i])

\* the name main is expected to write to
ExpectedName ==
    LET ext == <<Dot>> \o FormatChars(args.output_format)
        n == Len(args.output_file)
        k == Len(ext)
    IN  IF n >= k /\ [i \in 1..k |-> args.output_file[n - k + i]] = ext
        THEN args.output_file
        ELSE args.output_file \o ext

----------------------------------------------------------------------------
(* C1 *)

\* C1: a run of main with limit <= 0 never creates a session, checks the
\* identity, requests a listing or writes a file.
C1_NonPositiveLimitDoesNothing ==
    (entry = "main" /\ args.limit <= 0) =>
        /\ events = <<>>
        /\ files = {}
        /\ pc \in {"main", "done"}

C1_Witness == entry = "main" /\ args.limit = 0 /\ pc = "done" /\ LogHas("error", "limit_not_positive")

----------------------------------------------------------------------------
(* C5 *)

\* C5: once session creation or the identity check has raised in main, the
\* run is over: no listing request was or will be issued, no writer is
\* called and no file exists.
C5_AuthFailureAborts ==
    (entry = "main" /\ caught = "main:Exception") =>
        /\ pc = "done"
        /\ EventsOf("listing") = {}
        /\ EventsOf("write") = {}
        /\ files = {}
        /\ LogHas("error", "auth_failed")

C5_Witness ==
    /\ entry = "main"
    /\ caught = "main:Exception"
    /\ EventsOf("identity") # {}
    /\ args.output_format = "json"
    /\ pc = "done"

----------------------------------------------------------------------------
(* C2 *)

----------------------------------------------------------------------------
(* C3 *)

\* C3 as stated: limit > 0, session set-up succeeded, nothing fetched and
\* output_format = json: the run ends with a file holding an empty array.
C3_EmptyJsonFileCreated ==
    (FetchReturned /\ pc = "done" /\ args.limit > 0 /\ user \in Identities
        /\ posts_data = <<>> /\ args.output_format = "json") =>
        \E f \in files : f.doc = JsonDocument(<<>>)

\* C3 amended: limit > 0, session set-up succeeded, nothing fetched and
\* output_format = json: save_to_json is not called, no file is created and
\* the skip is logged.
C3_EmptyJsonSkipped ==
    (FetchReturned /\ pc = "done" /\ args.limit > 0 /\ user \in Identities
        /\ posts_data = <<>> /\ args.output_format = "json") =>
        /\ EventsOf("write") = {}
        /\ files = {}
        /\ LogHas("info", "skip_saving")

C3_Witness ==
    /\ FetchReturned
    /\ pc = "done"
    /\ caught = None
    /\ user = "u1"
    /\ posts_data = <<>>
    /\ args.output_format = "json"

----------------------------------------------------------------------------
(* C4 *)

\* C4: with nothing fetched and output_format = csv main creates no file,
\* and save_to_csv called directly with an empty sequence logs and returns
\* without creating one.
C4_EmptyCsvCreatesNoFile ==
    /\ (FetchReturned /\ posts_data = <<>> /\ args.output_format = "csv") =>
            /\ EventsOf("write") = {}
            /\ files = {}
            /\ pc \in {"serialize", "done"}
    /\ (entry = "save_to_csv" /\ wr.data = <<>>) =>
            /\ EventsOf("write") = {}
            /\ files = {}
            /\ pc \in {"save_to_csv", "done"}
            /\ pc = "done" => LogHas("info", "no_data_for_csv")

C4_Witness ==
    /\ entry = "save_to_csv"
    /\ wr.data = <<>>
    /\ pc = "done"

----------------------------------------------------------------------------
(* C6 *)

\* C6: when the listing yields N items and nothing raises, fetch_posts
\* returns N records, the i-th holding exactly the seven fields of the i-th
\* yielded item, unmodified and in the API's order.
C6_RecordsMirrorItems ==
    /\ (entry = "fetch_posts" /\ pc = "done" /\ caught = None) => MirrorsYielded(ret)
    /\ (FetchReturned /\ caught = None) => MirrorsYielded(posts_data)

C6_Witness ==
    /\ entry = "fetch_posts"
    /\ pc = "done"
    /\ caught = None
    /\ Len(ret) = 2
    /\ ret[1].id = "b2"
    /\ ret[2].id = "a1"

----------------------------------------------------------------------------
(* C7 *)

\* C7: a listing request of fetch_reddit_trends is the hot listing of
\* 'popular' with limit 10 and is issued at most once; the call returns
\* the titles of the items yielded so far, in order and at most 10 of them,
\* also when session set-up or the iteration raised, and never propagates.
C7_TrendsFixedRequest ==
    entry = "fetch_reddit_trends" =>
        /\ Cardinality(EventsOf("listing")) <= 1
        /\ \A i \in EventsOf("listing") :
              /\ events[i].limit = 10
              /\ events[i].subreddit = "popular"
              /\ events[i].op = "hot"
        /\ args = NoArgs
        /\ pc # "raised"
        /\ pc = "done" =>
              /\ Len(ret) <= 10
              /\ Len(ret) = Len(yielded)
              /\ \A i \in 1..Len(yielded) : ret[i] = yielded[i].title
              /\ caught = None => Cardinality(EventsOf("listing")) = 1

C7_Witness ==
    /\ entry = "fetch_reddit_trends"
    /\ pc = "done"
    /\ caught = "Exception"
    /\ Len(ret) = 9
    /\ ret[1] = "t2"
    /\ ret[9] = "t1"

----------------------------------------------------------------------------
(* C8 *)

\* C8: when the identity check returns None without raising, main logs a
\* warning (an info line for a non-empty identity), logs no error, and goes
\* on to the listing request with the configured sort type and limit and to
\* the same serialization decision as for a non-empty identity.
C8_AnonymousProceeds ==
    (entry = "main" /\ user \in Identities) =>
        /\ LogHas(IF user = None THEN "warning" ELSE "info", "identity")
        /\ ~LogHas(IF user = None THEN "info" ELSE "warning", "identity")
        /\ ~LogHas("error", "auth_failed")
        /\ pc \in {"call_fetch", "fetch_posts", "fp_iter", "serialize", "save_to_json",
                    "save_to_csv", "done"}
        /\ pc = "done" =>
              /\ \E i \in EventsOf("listing") :
                    events[i].limit = args.limit /\ events[i].subreddit = args.subreddit
              /\ EventsOf("write") # {}
                    <=> (posts_data # <<>> /\ args.output_format \in {"json", "csv"})

C8_Witness ==
    /\ entry = "main"
    /\ user = None
    /\ pc = "done"
    /\ \E f \in files : f.doc.kind = "json" /\ Len(f.doc.array) = 1

----------------------------------------------------------------------------
(* C9 *)

\* C9: once fetch_posts is past its dispatch exactly one listing operation
\* has been invoked, with the given limit: the one named by sort_type when
\* it is hot, new, top or controversial, else hot together with an error log.
C9_ExactlyOneListing ==
    (entry \in {"main", "fetch_posts"}
        /\ (pc = "fp_iter" \/ FetchReturned \/ (entry = "fetch_posts" /\ pc = "done"))) =>
        /\ Cardinality(EventsOf("listing")) = 1
        /\ \A i \in EventsOf("listing") :
              /\ events[i].limit = fp.limit
              /\ events[i].subreddit = fp.subreddit_name
              /\ events[i].op = (IF fp.sort_type \in {"hot", "new", "top", "controversial"}
                                 THEN fp.sort_type ELSE "hot")
        /\ LogHas("error", "invalid_sort_type")
              <=> fp.sort_type \notin {"hot", "new", "top", "controversial"}

C9_Witness ==
    /\ entry = "fetch_posts"
    /\ fp.sort_type = "rising"
    /\ pc = "done"
    /\ Len(ret) = 1

----------------------------------------------------------------------------
(* C10 *)

Rank(kind) == IF kind = "session" THEN 1 ELSE IF kind = "identity" THEN 2 ELSE IF kind = "listing" THEN 3 ELSE 4

\* C10: in one run of main, session creation, identity check, listing
\* request and file write each happen at most once and in that order; a
\* listing request only after an identity check that returned; a write only
\* after fetch_posts returned a non-empty sequence, only for json or csv,
\* and to output_file with '.<output_format>' appended unless already there.
C10_PipelineOrder ==
    entry = "main" =>
        /\ \A i, j \in 1..Len(events) : i < j => Rank(events[i].kind) < Rank(events[j].kind)
        /\ EventsOf("listing") # {} => (user \in Identities /\ EventsOf("identity") # {}
                                          /\ caught # "main:Exception")
        /\ \A i \in EventsOf("write") :
              /\ FetchReturned
              /\ posts_data # <<>>
              /\ events[i].data = posts_data
              /\ args.output_format \in {"json", "csv"}
              /\ events[i].writer = args.output_format
              /\ events[i].filename = ExpectedName
        /\ \A f \in files : EventsOf("write") # {} /\ f.name = ExpectedName

C10_Witness ==
    /\ entry = "main"
    /\ pc = "done"
    /\ Len(events) = 4
    /\ args.output_format = "json"
    /\ args.output_file = <<"r", Dot>> \o JsonExt
    /\ \E f \in files : f.name = args.output_file /\ f.doc.kind = "json"

====
